---------------------------- MODULE Spec2Model ----------------------------
(***************************************************************************)
(* ComposeKit image updater: the image-reference parser, the version       *)
(* extractor and parser, the override lookup, the OCI tag-listing client   *)
(* and the concurrent per-file pipeline of src/composekit/update.py, and   *)
(* find_versions of the root script update.py.                             *)
(*                                                                         *)
(* Strings are sequences of one-character strings, so that split, join,    *)
(* strip, upper and lower are computed as Python computes them.            *)
(*                                                                         *)
(* A task of process_file is a process that moves from await to await.     *)
(* The write, the stage and the commit inside async with git_lock are      *)
(* three steps of it: they block on the disk and on git, and the model     *)
(* lets the steps of other tasks fall between them, so that only git_lock  *)
(* keeps the three together.                                               *)
(***************************************************************************)
EXTENDS Integers, Sequences, FiniteSets, TLC

(***************************************************************************)
(* Python values                                                           *)
(***************************************************************************)

\* Python's None where a string is expected: no string of characters equals it.
None == <<"None">>

\* "latest", the version parse_image gives an image without a colon.
Latest == <<"l", "a", "t", "e", "s", "t">>

\* "_", the namespace parse_image gives an image without one.
Underscore == <<"_">>

\* "library", the namespace find_versions asks the registry for instead of "_".
Library == <<"l", "i", "b", "r", "a", "r", "y">>

\* "docker.io" and "index.docker.io", the hosts list_tags normalises.
DockerIo == <<"d", "o", "c", "k", "e", "r", ".", "i", "o">>

IndexDockerIo == <<"i", "n", "d", "e", "x", ".">> \o DockerIo

\* bool(s) of a str-or-None value: None and "" are false.
Truthy(s) == s # None /\ s # <<>>

\* x in s, for a character x.
Contains(s, x) == \E i \in 1..Len(s) : s[i] = x

\* s.split(sep) for a one-character separator.
RECURSIVE split(_, _)
split(s, sep) ==
    IF Contains(s, sep)
    THEN LET i == CHOOSE k \in 1..Len(s) :
                      s[k] = sep /\ \A j \in 1..(k - 1) : s[j] # sep
         IN  <<SubSeq(s, 1, i - 1)>> \o split(SubSeq(s, i + 1, Len(s)), sep)
    ELSE <<s>>

\* s.split(sep, 1): at most one split, at the first separator.
split1(s, sep) ==
    IF Contains(s, sep)
    THEN LET i == CHOOSE k \in 1..Len(s) :
                      s[k] = sep /\ \A j \in 1..(k - 1) : s[j] # sep
         IN  <<SubSeq(s, 1, i - 1), SubSeq(s, i + 1, Len(s))>>
    ELSE <<s>>

\* sep.join(parts) for a one-character separator.
RECURSIVE join(_, _)
join(sep, parts) ==
    IF parts = <<>> THEN <<>>
    ELSE IF Len(parts) = 1 THEN parts[1]
    ELSE parts[1] \o <<sep>> \o join(sep, Tail(parts))

\* filter(None, parts): the parts that are neither None nor "".
RECURSIVE filterNone(_)
filterNone(parts) ==
    IF parts = <<>> THEN <<>>
    ELSE (IF Truthy(parts[1]) THEN <<parts[1]>> ELSE <<>>)
         \o filterNone(Tail(parts))

\* s.strip(chars): leading and trailing characters of the set removed.
RECURSIVE lstrip(_, _)
lstrip(s, chars) ==
    IF s # <<>> /\ s[1] \in chars THEN lstrip(Tail(s), chars) ELSE s

RECURSIVE rstrip(_, _)
rstrip(s, chars) ==
    IF s # <<>> /\ s[Len(s)] \in chars
    THEN rstrip(SubSeq(s, 1, Len(s) - 1), chars) ELSE s

strip(s, chars) == rstrip(lstrip(s, chars), chars)

Whitespace == {" "}

\* str.upper and str.lower: the ASCII letters change case, every other
\* character stays.
Lowercase ==
    <<"a", "b", "c", "d", "e", "f", "g", "h", "i", "j", "k", "l", "m",
      "n", "o", "p", "q", "r", "s", "t", "u", "v", "w", "x", "y", "z">>

Uppercase ==
    <<"A", "B", "C", "D", "E", "F", "G", "H", "I", "J", "K", "L", "M",
      "N", "O", "P", "Q", "R", "S", "T", "U", "V", "W", "X", "Y", "Z">>

UpperChar(c) ==
    IF \E i \in 1..26 : Lowercase[i] = c
    THEN Uppercase[CHOOSE i \in 1..26 : Lowercase[i] = c]
    ELSE c

LowerChar(c) ==
    IF \E i \in 1..26 : Uppercase[i] = c
    THEN Lowercase[CHOOSE i \in 1..26 : Uppercase[i] = c]
    ELSE c

upper(s) == [i \in 1..Len(s) |-> UpperChar(s[i])]

lower(s) == [i \in 1..Len(s) |-> LowerChar(s[i])]

\* s.startswith(prefix)
startswith(s, prefix) ==
    Len(s) >= Len(prefix) /\ SubSeq(s, 1, Len(prefix)) = prefix

(***************************************************************************)
(* parse_image                                                             *)
(***************************************************************************)

\* The value parse_image returns for more than three path segments.
InvalidImage ==
    [ok |-> FALSE, registry |-> None, user |-> None, image |-> None,
     version |-> None]

ParsedImage(registry, user, image, version) ==
    [ok |-> TRUE, registry |-> registry, user |-> user, image |-> image,
     version |-> version]

\* parse_image: the version is what the last ':' of the image ends with, the
\* path is version_segments[0], and the if/elif chain goes by the number of
\* the path's '/'-segments.
parse_image(image) ==
    LET image_version(version_segments) ==
            IF Len(version_segments) > 1
            THEN version_segments[Len(version_segments)]
            ELSE Latest
        image_parts(image_segments, version) ==
            CASE Len(image_segments) = 1 ->
                   ParsedImage(None, Underscore, image_segments[1], version)
              [] Len(image_segments) = 2 ->
                   IF Contains(image_segments[1], ".")
                   THEN ParsedImage(image_segments[1], Underscore,
                                    image_segments[2], version)
                   ELSE ParsedImage(None, image_segments[1],
                                    image_segments[2], version)
              [] Len(image_segments) = 3 ->
                   ParsedImage(image_segments[1], image_segments[2],
                               image_segments[3], version)
              [] OTHER -> InvalidImage
        parse_segments(version_segments) ==
            image_parts(split(version_segments[1], "/"),
                        image_version(version_segments))
    IN  parse_segments(split(image, ":"))

\* "/".join(filter(None, [registry, user, image]))
full_image_of(registry, user, image) ==
    join("/", filterNone(<<registry, user, image>>))

(***************************************************************************)
(* extract_version and parse_version                                       *)
(***************************************************************************)

Digits == {"0", "1", "2", "9"}

DigitVal(c) ==
    CASE c = "0" -> 0 [] c = "1" -> 1 [] c = "2" -> 2 [] c = "9" -> 9

IsNumber(s) == s # <<>> /\ \A i \in 1..Len(s) : s[i] \in Digits

RECURSIVE IntOf(_)
IntOf(s) ==
    IF s = <<>> THEN 0
    ELSE 10 * IntOf(SubSeq(s, 1, Len(s) - 1)) + DigitVal(s[Len(s)])

\* The version_regex values of the model: "" is no pattern, the second has
\* one capture group, the third has none.
NoPattern == ""

PatLeadingVersion == "^([0-9.]+)"

PatNoGroup == "[0-9]+"

\* The longest prefix of s made of digits and dots: what ^([0-9.]+) captures.
RECURSIVE LeadingVersion(_)
LeadingVersion(s) ==
    IF s # <<>> /\ s[1] \in Digits \cup {"."}
    THEN <<s[1]>> \o LeadingVersion(Tail(s))
    ELSE <<>>

\* re.search(pattern, version); match.group(1) if match and match.groups()
extract_version(version, pattern) ==
    LET group1(captured) == IF captured # <<>> THEN captured ELSE None
    IN  IF pattern = NoPattern THEN version
        ELSE IF pattern = PatLeadingVersion
        THEN group1(LeadingVersion(version))
        ELSE None

\* The release numbers with trailing zeros dropped: Version compares by them.
RECURSIVE StripZeros(_)
StripZeros(r) ==
    IF r # <<>> /\ r[Len(r)] = 0 THEN StripZeros(SubSeq(r, 1, Len(r) - 1))
    ELSE r

\* packaging's Version(s): whether s is a version, whether a pre-release, and
\* the key it compares by. A version is v? [0-9]+(\.[0-9]+)* followed by
\* nothing or by the pre-release suffix [.]? a [.]? [0-9]*.
VersionOf(s) ==
    LET AllNumbers(parts) == \A i \in 1..Len(parts) : IsNumber(parts[i])
        IsRelease(r) == AllNumbers(split(r, "."))
        IsPreNumber(x) == x = <<>> \/ IsNumber(x)
        IsPreTail(x) ==
            IF x # <<>> /\ x[1] = "." THEN IsPreNumber(Tail(x))
            ELSE IsPreNumber(x)
        IsPreLetter(x) == x # <<>> /\ x[1] = "a" /\ IsPreTail(Tail(x))
        IsPreSuffix(x) ==
            IF x # <<>> /\ x[1] = "." THEN IsPreLetter(Tail(x))
            ELSE IsPreLetter(x)
        IntsOf(parts) == [i \in 1..Len(parts) |-> IntOf(parts[i])]
        ReleaseKey(r) == StripZeros(IntsOf(split(r, ".")))
        VersionCuts(body) ==
            {n \in 1..Len(body) :
                /\ IsRelease(SubSeq(body, 1, n))
                /\ \/ n = Len(body)
                   \/ IsPreSuffix(SubSeq(body, n + 1, Len(body)))}
        VersionAt(body, cuts) ==
            IF cuts = {} THEN [valid |-> FALSE, pre |-> FALSE, key |-> <<>>]
            ELSE [valid |-> TRUE,
                  pre |-> \E n \in cuts : n < Len(body),
                  key |-> ReleaseKey(
                              SubSeq(body, 1, CHOOSE n \in cuts : TRUE))]
        VersionBody(body) == VersionAt(body, VersionCuts(body))
    IN  IF s # <<>> /\ s[1] = "v" THEN VersionBody(Tail(s))
        ELSE VersionBody(s)

NoVersion == [ok |-> FALSE, key |-> <<>>]

\* parse_version without the is_prerelease test.
parse_version_any(version) ==
    LET comparable(v) ==
            IF v.valid THEN [ok |-> TRUE, key |-> v.key]
            ELSE NoVersion
    IN  IF ~Truthy(version) THEN NoVersion
        ELSE comparable(VersionOf(version))

\* parse_version: Version(version) if it is no pre-release, None for a
\* pre-release, on InvalidVersion and for no version at all.
parse_version(version) ==
    LET comparable(v) ==
            IF v.valid /\ ~v.pre THEN [ok |-> TRUE, key |-> v.key]
            ELSE NoVersion
    IN  IF ~Truthy(version) THEN NoVersion
        ELSE comparable(VersionOf(version))

\* a < b for release keys: Python's tuple order.
RECURSIVE KeyLess(_, _)
KeyLess(a, b) ==
    IF b = <<>> THEN FALSE
    ELSE IF a = <<>> THEN TRUE
    ELSE IF a[1] # b[1] THEN a[1] < b[1]
    ELSE KeyLess(Tail(a), Tail(b))

\* The first pair, whatever its version.
TakeFirst(versions) == versions[1]

\* max(versions, key=...): the first pair whose key no other pair exceeds.
MaxFirst(versions) ==
    versions[CHOOSE i \in 1..Len(versions) :
                 /\ \A j \in 1..Len(versions) :
                        ~KeyLess(versions[i].key, versions[j].key)
                 /\ \A j \in 1..(i - 1) :
                        KeyLess(versions[j].key, versions[i].key)]

(***************************************************************************)
(* Config                                                                  *)
(***************************************************************************)

\* The values a configuration key can hold. A dict is an override mapping:
\* keys is the set of its keys, the other fields their values.
NoneValue ==
    [kind |-> "none", keys |-> {}, update |-> TRUE, version_regex |-> NoPattern,
     username |-> None, password |-> None, int |-> 0, str |-> None]

DictValue(keys, upd, regex, username, password) ==
    [kind |-> "dict", keys |-> keys, update |-> upd, version_regex |-> regex,
     username |-> username, password |-> password, int |-> 0, str |-> None]

IntValue(n) ==
    [kind |-> "int", keys |-> {}, update |-> TRUE, version_regex |-> NoPattern,
     username |-> None, password |-> None, int |-> n, str |-> None]

StrValue(s) ==
    [kind |-> "str", keys |-> {}, update |-> TRUE, version_regex |-> NoPattern,
     username |-> None, password |-> None, int |-> 0, str |-> s]

\* The {} that update falls back to when no key gives a mapping.
EmptyDict == DictValue({}, TRUE, NoPattern, None, None)

\* bool(value)
ValueTruthy(v) ==
    CASE v.kind = "none" -> FALSE
      [] v.kind = "dict" -> v.keys # {}
      [] v.kind = "int" -> v.int # 0
      [] v.kind = "str" -> v.str # <<>>

\* int(value) of an int or of a string of digits.
IntOfValue(v) == IF v.kind = "int" THEN v.int ELSE IntOf(v.str)

KeyLimit == <<"l", "i", "m", "i", "t">>

KeyTimeout == <<"t", "i", "m", "e", "o", "u", "t">>

KeyContainersFolder ==
    <<"c", "o", "n", "t", "a", "i", "n", "e", "r", "s", "_",
      "f", "o", "l", "d", "e", "r">>

DefaultLimit == 40

DefaultTimeout == 10

\* Config.default_values.get(key)
default_values_get(key) ==
    CASE key = KeyLimit -> IntValue(DefaultLimit)
      [] key = KeyTimeout -> IntValue(DefaultTimeout)
      [] key = KeyContainersFolder ->
             StrValue(<<"c", "o", "n", "t", "a", "i", "n", "e", "r", "s">>)
      [] OTHER -> NoneValue

\* os.getenv(name): env maps the names that are set to their values.
getenv(env, name) == IF name \in DOMAIN env THEN env[name] ELSE None

\* self.config.get(key): file maps the keys of the loaded YAML to values.
config_get(file, key) == IF key \in DOMAIN file THEN file[key] ELSE NoneValue

\* Config.__getitem__: os.getenv(key.upper()) or self.config.get(key.lower())
\* or self.default_values.get(key)
Config_getitem(cfg, key) ==
    LET first_truthy(e, f) ==
            IF Truthy(e) THEN StrValue(e)
            ELSE IF ValueTruthy(f) THEN f
            ELSE default_values_get(key)
    IN  first_truthy(getenv(cfg.env, upper(key)),
                     config_get(cfg.file, lower(key)))

\* dict.get on an override mapping.
dict_get_update_is_False(d) == "update" \in d.keys /\ d.update = FALSE

dict_get_version_regex(d) ==
    IF "version_regex" \in d.keys THEN d.version_regex ELSE NoPattern

dict_get_username(d) == IF "username" \in d.keys THEN d.username ELSE None

dict_get_password(d) == IF "password" \in d.keys THEN d.password ELSE None

(***************************************************************************)
(* update, up to the registry call                                         *)
(***************************************************************************)

\* The keys update looks the override up under, in order.
OverrideItems(full_image, user, image) ==
    <<full_image, user \o <<"/">> \o image, image>>

\* Whether config[item] is a value update accepts as override.
IsOverride(data) == ValueTruthy(data) /\ data.kind = "dict"

\* The last of the looked-up values that is an override.
last_override(found) ==
    IF \A i \in 1..Len(found) : ~IsOverride(found[i]) THEN EmptyDict
    ELSE found[CHOOSE i \in 1..Len(found) :
                   /\ IsOverride(found[i])
                   /\ \A j \in (i + 1)..Len(found) : ~IsOverride(found[j])]

\* The first of the looked-up values that is an override, {} if none is.
first_override(found) ==
    IF \A i \in 1..Len(found) : ~IsOverride(found[i]) THEN EmptyDict
    ELSE found[CHOOSE i \in 1..Len(found) :
                   /\ IsOverride(found[i])
                   /\ \A j \in 1..(i - 1) : ~IsOverride(found[j])]

lookup_items(config, items) ==
    [i \in 1..Len(items) |-> Config_getitem(config, items[i])]

\* next((_data for item in [...] if (_data := config[item]) and
\* isinstance(_data, dict)), {})
resolve_override(config, full_image, user, image) ==
    first_override(lookup_items(config,
                                OverrideItems(full_image, user, image)))

\* update from its start to the call of find_versions. stop says why it
\* returns None before that call: "" when it does not.
update_begin(cfg, container_image) ==
    LET stop_reason(result, container, current_version) ==
            IF ~result.ok THEN "invalid_image"
            ELSE IF dict_get_update_is_False(container) THEN "disabled"
            ELSE IF ~current_version.ok THEN "unparsable_version"
            ELSE ""
        begin_state(result, full_image, container, current_version) ==
            [stop |-> stop_reason(result, container, current_version),
             registry |-> result.registry, user |-> result.user,
             image |-> result.image, version |-> result.version,
             full_image |-> IF result.ok THEN full_image ELSE None,
             container |-> container,
             version_regex |-> dict_get_version_regex(container),
             current_version |-> current_version]
        with_override(result, full_image, container) ==
            begin_state(result, full_image, container,
                        parse_version(extract_version(
                            result.version,
                            dict_get_version_regex(container))))
        with_full_image(result, full_image) ==
            with_override(
                result, full_image,
                resolve_override(cfg, full_image, result.user, result.image))
        parsed(result) ==
            with_full_image(
                result,
                full_image_of(result.registry, result.user, result.image))
    IN  parsed(parse_image(container_image))

\* tags[-limit:]
PySuffix(tags, limit) ==
    LET drop_first(start) == SubSeq(tags, start + 1, Len(tags))
    IN  IF limit > 0
        THEN drop_first(IF Len(tags) - limit > 0 THEN Len(tags) - limit
                        ELSE 0)
        ELSE drop_first(IF 0 - limit < Len(tags) THEN 0 - limit
                        ELSE Len(tags))

\* int(config["limit"])
config_limit(config) == IntOfValue(Config_getitem(config, KeyLimit))

NoDecision == [ok |-> FALSE, full_image |-> None, image |-> None,
               newest_version |-> None]

\* The tags at or above the current version.
newer_or_equal(parsed, current_version) ==
    {i \in 1..Len(parsed) :
        parsed[i].ok /\ ~KeyLess(parsed[i].key, current_version.key)}

\* The indices of the tags the list comprehension of update keeps.
newer(parsed, current_version) ==
    {i \in 1..Len(parsed) :
        parsed[i].ok /\ KeyLess(current_version.key, parsed[i].key)}

\* The kept (v, version) pairs in list order.
RECURSIVE pairs(_, _, _, _)
pairs(raw_versions, parsed, keep, i) ==
    IF i > Len(raw_versions) THEN <<>>
    ELSE (IF i \in keep
          THEN <<[key |-> parsed[i].key, raw |-> raw_versions[i]]>>
          ELSE <<>>)
         \o pairs(raw_versions, parsed, keep, i + 1)

\* update from the list find_versions returned to its return value: the
\* versions list, its maximum, and the decision.
update_finish(begin, raw_versions) ==
    LET parse_all ==
            [i \in 1..Len(raw_versions) |->
                parse_version(extract_version(raw_versions[i],
                                              begin.version_regex))]
        decide(newest) ==
            IF ~Truthy(newest.raw) THEN NoDecision
            ELSE [ok |-> TRUE, full_image |-> begin.full_image,
                  image |-> begin.image, newest_version |-> newest.raw]
        select(versions) ==
            IF versions = <<>> THEN NoDecision
            ELSE decide(MaxFirst(versions))
        select_parsed(parsed) ==
            select(pairs(raw_versions, parsed,
                         newer(parsed, begin.current_version), 1))
    IN  IF raw_versions = <<>> THEN NoDecision
        ELSE select_parsed(parse_all)

\* A rewrite that names the repository alone.
rewritten_plain(decision) ==
    decision.image \o <<":">> \o decision.newest_version

\* container["image"] = f"{full_image}:{newest_version}"
rewritten_image(decision) ==
    decision.full_image \o <<":">> \o decision.newest_version

(***************************************************************************)
(* list_tags: the OCI distribution client                                  *)
(***************************************************************************)

Https == <<"h", "t", "t", "p", "s", ":", "/", "/">>

V2 == <<"/", "v", "2", "/">>

TagsList == <<"/", "t", "a", "g", "s", "/", "l", "i", "s", "t">>

Bearer == <<"B", "e", "a", "r", "e", "r">>

LowerBearer == <<"b", "e", "a", "r", "e", "r">>

Realm == <<"r", "e", "a", "l", "m">>

\* f"https://{registry_host}/v2/{repo}/tags/list", index.docker.io for no
\* host and for docker.io
tags_url(registry_host, repo) ==
    Https
    \o (IF ~Truthy(registry_host) \/ registry_host = DockerIo
        THEN IndexDockerIo ELSE registry_host)
    \o V2 \o repo \o TagsList

\* (username, password) if both are given, else None
auth_of(username, password) ==
    IF username # None /\ password # None THEN <<username, password>>
    ELSE None

\* A GET the client sends: params is the query, bearer the token of the
\* Authorization header.
Request(url, params, auth, bearer) ==
    [url |-> url, params |-> params, auth |-> auth, bearer |-> bearer]

\* dict as a sequence of <<key, value>> in insertion order: d[k] = v
dict_set(d, k, v) ==
    IF \E i \in 1..Len(d) : d[i][1] = k
    THEN [i \in 1..Len(d) |-> IF d[i][1] = k THEN <<k, v>> ELSE d[i]]
    ELSE Append(d, <<k, v>>)

\* d.get(k)
dict_get(d, k) ==
    IF \E i \in 1..Len(d) : d[i][1] = k
    THEN d[CHOOSE i \in 1..Len(d) : d[i][1] = k][2]
    ELSE None

\* d without k: what d.pop(k, None) leaves.
RECURSIVE dict_without(_, _)
dict_without(d, k) ==
    IF d = <<>> THEN <<>>
    ELSE (IF d[1][1] = k THEN <<>> ELSE <<d[1]>>) \o dict_without(Tail(d), k)

\* The loop over parts.split(","): k, v = p.split("=", 1);
\* params[k.strip()] = v.strip().strip('"')
RECURSIVE challenge_params(_, _)
challenge_params(pieces, params) ==
    LET set_param(kv) ==
            dict_set(params, strip(kv[1], Whitespace),
                     strip(strip(kv[2], Whitespace), {"\""}))
    IN  IF pieces = <<>> THEN params
        ELSE IF ~Contains(pieces[1], "=")
        THEN challenge_params(Tail(pieces), params)
        ELSE challenge_params(Tail(pieces),
                              set_param(split1(pieces[1], "=")))

\* www[len("Bearer "):].strip() split on "," and read into a dict.
parse_challenge(www) ==
    challenge_params(
        split(strip(SubSeq(www, Len(Bearer) + 2, Len(www)), Whitespace), ","),
        <<>>)

\* What list_tags does next: return tags, raise, or send another request.
\* why names the failure: "" when there is none.
NoRequest == [url |-> None, params |-> <<>>, auth |-> None, bearer |-> None]

Return(tags, why) ==
    [next |-> "return", tags |-> tags, request |-> NoRequest, why |-> why]

Raise(why) ==
    [next |-> "raise", tags |-> <<>>, request |-> NoRequest, why |-> why]

Send(next, request) ==
    [next |-> next, tags |-> <<>>, request |-> request, why |-> ""]

\* The first request of list_tags.
first_request(registry_host, repo, username, password) ==
    Request(tags_url(registry_host, repo), <<>>,
            auth_of(username, password), None)

\* A response of the registry. kind "neterr" is a transport error raised by
\* client.get; otherwise status, the WWW-Authenticate header, and the JSON
\* body's tags, token and access_token.
Response(kind, status, www, tags, token, access_token) ==
    [kind |-> kind, status |-> status, www |-> www, tags |-> tags,
     token |-> token, access_token |-> access_token]

\* response.raise_for_status() raises
IsErrorStatus(status) == status < 200 \/ status >= 300

\* list_tags after the answer to the first request.
on_tags_response(r, auth) ==
    LET token_request(params) ==
            IF ~Truthy(dict_get(params, Realm)) THEN Return(<<>>, "no_realm")
            ELSE Send("get_token",
                      Request(dict_get(params, Realm),
                              dict_without(params, Realm), auth, None))
    IN  IF r.kind = "neterr" THEN Raise("network_error")
        ELSE IF r.status = 200 THEN Return(r.tags, "")
        ELSE IF r.status = 401 /\ startswith(lower(r.www), LowerBearer)
        THEN token_request(parse_challenge(r.www))
        ELSE IF IsErrorStatus(r.status) THEN Raise("unexpected_status")
        ELSE Return(<<>>, "")

\* list_tags after the answer of the token endpoint:
\* token = token_json.get("token") or token_json.get("access_token")
on_token_response(r, url) ==
    LET with_token(token) ==
            IF ~Truthy(token) THEN Raise("no_token")
            ELSE Send("retry", Request(url, <<>>, None, token))
    IN  IF r.kind = "neterr" THEN Raise("network_error")
        ELSE IF IsErrorStatus(r.status) THEN Raise("token_failed")
        ELSE with_token(IF Truthy(r.token) THEN r.token ELSE r.access_token)

\* list_tags after the answer to the retried request.
on_retry_response(r) ==
    IF r.kind = "neterr" THEN Raise("network_error")
    ELSE IF IsErrorStatus(r.status) THEN Raise("retry_failed")
    ELSE Return(r.tags, "")

\* find_versions from what list_tags did: its tags cut to the limit, [] when
\* it raised or returned no tag.
find_versions_result(limit, outcome) ==
    IF outcome.next = "return" /\ outcome.tags # <<>>
    THEN PySuffix(outcome.tags, limit)
    ELSE <<>>

\* user = "library" if user == "_" else user; f"{user}/{image}"
repo_of(user, image) ==
    (IF user = Underscore THEN Library ELSE user) \o <<"/">> \o image

(***************************************************************************)
(* The files, the configurations and the registry of the pipeline          *)
(***************************************************************************)

\* Number of container files main finds, one process_file task each.
NFiles == 2

Files == 1..NFiles

\* Images of the container documents: "a:1.0", "n/a:1", "a/a/a/a:1" (four
\* segments) and "a" (no tag).
ImgA == <<"a", ":", "1", ".", "0">>

ImgNA == <<"n", "/", "a", ":", "1">>

ImgBad == <<"a", "/", "a", "/", "a", "/", "a", ":", "1">>

ImgNoTag == <<"a">>

\* The documents of the files of the containers folder, in document order.
FileTable == << <<ImgA, ImgNA>>, <<ImgBad, ImgA>>, <<ImgNoTag, ImgNA>> >>

Docs(table, f) == table[((f - 1) % Len(table)) + 1]

\* config/update.yaml and the environment: nothing set; "_/a" disabled and a
\* version_regex without a group for "n/a"; a limit of 1 and credentials
\* for "a".
CfgEmpty == [env |-> <<>>, file |-> <<>>]

CfgSkip ==
    [env |-> <<>>,
     file |-> (<<"_", "/", "a">> :>
                  DictValue({"update"}, FALSE, NoPattern, None, None))
              @@ (<<"n", "/", "a">> :>
                     DictValue({"version_regex"}, TRUE, PatNoGroup, None, None))]

CfgLimit ==
    [env |-> <<>>,
     file |-> (KeyLimit :> IntValue(1))
              @@ (<<"a">> :>
                     DictValue({"username", "password"}, TRUE, NoPattern,
                               <<"u">>, <<"p">>))]

PipelineConfigs == {CfgEmpty, CfgSkip, CfgLimit}

\* Tag lists a registry answers with: the "tags" array of the body, [] when
\* it is missing, null or empty.
PipelineTagLists ==
    { <<>>,
      << <<"1", ".", "0">> >>,
      << <<"2", ".", "0">>, <<"1", ".", "1">> >> }

\* WWW-Authenticate: Bearer k="v",k="v" as a registry writes a challenge.
RECURSIVE format_params(_)
format_params(ch) ==
    IF ch = <<>> THEN <<>>
    ELSE ch[1][1] \o <<"=", "\"">> \o ch[1][2] \o <<"\"">>
         \o (IF Len(ch) > 1 THEN <<",">> ELSE <<>>)
         \o format_params(Tail(ch))

format_challenge(ch) == Bearer \o <<" ">> \o format_params(ch)

\* Challenge parameters: realm "u", service "s", and a scope that lists two
\* actions, "p,q" (as in scope="repository:org/app:pull,push").
Service == <<"s", "e", "r", "v", "i", "c", "e">>

Scope == <<"s", "c", "o", "p", "e">>

ChRealmService == << <<Realm, <<"u">> >>, <<Service, <<"s">> >> >>

ChRealmScope == << <<Realm, <<"u">> >>, <<Scope, <<"p", ",", "q">> >> >>

ChNoRealm == << <<Service, <<"s">> >> >>

Challenges == {ChRealmService, ChRealmScope, ChNoRealm}

BasicHeader == <<"B", "a", "s", "i", "c", " ">> \o format_params(ChNoRealm)

\* Answers to GET .../tags/list (first or retried): a transport error, 200
\* with a tag list, 204, 404, and 401 with a Bearer challenge, with another
\* scheme, or with no WWW-Authenticate header. ch is the challenge sent.
TagsAnswers ==
    {[r |-> Response("neterr", 0, <<>>, <<>>, None, None), ch |-> <<>>]}
    \cup {[r |-> Response("http", 200, <<>>, tags, None, None), ch |-> <<>>] :
             tags \in PipelineTagLists}
    \cup {[r |-> Response("http", st, <<>>, <<>>, None, None), ch |-> <<>>] :
             st \in {204, 404}}
    \cup {[r |-> Response("http", 401, format_challenge(ch), <<>>, None, None),
           ch |-> ch] : ch \in Challenges}
    \cup {[r |-> Response("http", 401, www, <<>>, None, None), ch |-> <<>>] :
             www \in {BasicHeader, <<>>}}

\* Answers of the token endpoint: a transport error, 403, and 200 with
\* "token", with "access_token", or with neither.
TokenAnswers ==
    { Response("neterr", 0, <<>>, <<>>, None, None),
      Response("http", 403, <<>>, <<>>, None, None),
      Response("http", 200, <<>>, <<>>, <<"k">>, None),
      Response("http", 200, <<>>, <<>>, None, <<"j">>),
      Response("http", 200, <<>>, <<>>, None, None) }

(***************************************************************************)
(* State                                                                   *)
(***************************************************************************)

VARIABLES
    config,      \* Config(): the environment and the loaded YAML
    disk,        \* disk[f]: the documents' images in file f of the work tree
    index,       \* index[f]: the content of f staged in the git index
    head,        \* head[f]: the content of f in the HEAD commit
    commits,     \* commits[f]: the messages of the commits task f made
    pc,          \* pc[f]: where task process_file(f) stands
    idx,         \* idx[f]: the container task f is at (1-based)
    mem,         \* mem[f]: task f's containers list (images)
    reqs,        \* reqs[f]: the requests list_tags has sent in f's open call
    challenge,   \* challenge[f]: the challenge the registry sent in that call
    decision,    \* decision[f]: the decision task f is writing and committing
    last,        \* last[f]: how f's latest call of update ended
    decided,     \* decided[f]: the number of decisions update returned to f
    lock,        \* git_lock: 0 when unlocked, else the task holding it
    waiters,     \* git_lock._waiters, first in first out
    mainpc,      \* where main stands
    clientOpen,  \* the httpx.AsyncClient is inside its async with
    mustCancel,  \* mustCancel[f]: asyncio.run has cancelled task f
    call         \* a call of parse_image or update on its own: input and result

taskVars == <<pc, idx, mem, reqs, challenge, decision, last, decided>>

gitVars == <<disk, index, head, commits>>

lockVars == <<lock, waiters>>

mainVars == <<mainpc, clientOpen, mustCancel>>

pipelineVars == <<config, taskVars, gitVars, lockVars, mainVars>>

vars == <<call, pipelineVars>>

\* The suspension points of process_file: the three awaits of client.get in
\* list_tags and the wait for git_lock.
InListTags == {"get_tags", "get_token", "retry"}

\* The awaits of client.get in find_versions of the root script update.py.
InLegacyFindVersions == {"hub_get", "ghcr_token", "ghcr_tags"}

AwaitPoints == InListTags \cup InLegacyFindVersions \cup {"wait_lock"}

\* Inside async with git_lock.
InSection == {"write", "stage", "commit"}

Finished == {"done", "failed", "cancelled"}

\* The state main starts the tasks in: repo.index.reset(working_tree=True)
\* has made work tree, index and HEAD equal.
InitWith(configs, table) ==
    /\ config \in configs
    /\ disk = [f \in Files |-> Docs(table, f)]
    /\ index = disk
    /\ head = disk
    /\ commits = [f \in Files |-> <<>>]
    /\ pc = [f \in Files |-> "start"]
    /\ idx = [f \in Files |-> 1]
    /\ mem = [f \in Files |-> <<>>]
    /\ reqs = [f \in Files |-> <<>>]
    /\ challenge = [f \in Files |-> <<>>]
    /\ decision = [f \in Files |-> NoDecision]
    /\ last = [f \in Files |-> ""]
    /\ decided = [f \in Files |-> 0]
    /\ lock = 0
    /\ waiters = <<>>
    /\ mainpc = "gather"
    /\ clientOpen = TRUE
    /\ mustCancel = [f \in Files |-> FALSE]

\* No call on its own is under way: the pipeline runs.
NoCall ==
    [state |-> "none", image |-> None, parsed |-> InvalidImage,
     requested |-> FALSE, tags |-> <<>>, versions |-> <<>>,
     result |-> NoDecision]

Init == InitWith(PipelineConfigs, FileTable) /\ call = NoCall

(***************************************************************************)
(* process_file                                                            *)
(***************************************************************************)

\* update's state for the container task t is at.
Begin(t) == update_begin(config, mem[t][idx[t]])

\* list_tags' url and auth for that container.
url_of(b) == tags_url(b.registry, repo_of(b.user, b.image))

auth_for(b) ==
    auth_of(dict_get_username(b.container), dict_get_password(b.container))

\* An event loop that delivers the answer to a first request only while no
\* other task is further into a call of list_tags.
StartedAndAlone == \A u \in Files : pc[u] \notin {"start", "get_token", "retry"}

\* Every task has run up to its first await: the event loop starts each task
\* of gather before it delivers any response.
Started == \A u \in Files : pc[u] # "start"

\* A lock that admits every caller at once.
lock_always_free(l, w) == TRUE

\* asyncio.Lock.acquire returns at once: unlocked and nobody waiting.
lock_is_free(l, w) == l = 0 /\ w = <<>>

\* The commit message: f"refactor({path.stem}): update {image} to {version}"
commit_message(t, d) ==
    [stem |-> t, image |-> d.image, version |-> d.newest_version]

\* A commit that records nothing.
index_commit_lost(log, message) == log

\* repo.index.commit(message) on the log of the commits of one file.
index_commit(log, message) == Append(log, message)

\* A loop that takes the same container again while another follows it.
NextContainer_again(t) ==
    /\ pc' = [pc EXCEPT ![t] = IF idx[t] < Len(mem[t]) THEN "update"
                               ELSE "done"]
    /\ idx' = idx

\* `continue`, or the end of the for body: the next container, or the end.
NextContainer(t) ==
    /\ pc' = [pc EXCEPT ![t] = IF idx[t] < Len(mem[t]) THEN "update"
                               ELSE "done"]
    /\ idx' = [idx EXCEPT ![t] = IF idx[t] < Len(mem[t]) THEN idx[t] + 1
                                 ELSE idx[t]]

\* with open(path, "r") as file: containers = list(yaml.safe_load_all(file))
Load(t) ==
    /\ pc[t] = "start"
    /\ mem' = [mem EXCEPT ![t] = disk[t]]
    /\ pc' = [pc EXCEPT ![t] = IF disk[t] = <<>> THEN "done" ELSE "update"]
    /\ UNCHANGED <<call, config, idx, reqs, challenge, decision, last, decided,
                   gitVars, lockVars, mainVars>>

\* await update(...) up to the first client.get of list_tags: update returns
\* None before it (invalid image, disabled, unparsable version), client.get
\* raises on a closed client (find_versions catches it), or the request goes
\* out and the task waits.
Resolve(t) ==
    /\ pc[t] = "update"
    /\ \E b \in {Begin(t)} :
           IF b.stop # ""
           THEN /\ NextContainer(t)
                /\ last' = [last EXCEPT ![t] = b.stop]
                /\ UNCHANGED reqs
           ELSE IF ~clientOpen
           THEN /\ NextContainer(t)
                /\ last' = [last EXCEPT ![t] = "network_error"]
                /\ UNCHANGED reqs
           ELSE /\ reqs' = [reqs EXCEPT ![t] =
                               <<first_request(
                                     b.registry, repo_of(b.user, b.image),
                                     dict_get_username(b.container),
                                     dict_get_password(b.container))>>]
                /\ pc' = [pc EXCEPT ![t] = "get_tags"]
                /\ last' = [last EXCEPT ![t] = ""]
                /\ UNCHANGED idx
    /\ UNCHANGED <<call, config, mem, challenge, decision, decided, gitVars,
                   lockVars, mainVars>>

\* How a call of update that reached the registry ended without a decision.
no_decision_kind(o) ==
    IF o.why # "" THEN o.why
    ELSE IF o.tags = <<>> THEN "no_tags"
    ELSE "no_newer"

\* update returned the decision d (or none): on a decision the image is
\* rewritten in memory and the task enters async with git_lock, at once or
\* after waiting; else the loop continues.
UpdateReturns(t, o, d) ==
    /\ reqs' = [reqs EXCEPT ![t] = <<>>]
    /\ challenge' = [challenge EXCEPT ![t] = <<>>]
    /\ IF d.ok
       THEN /\ decision' = [decision EXCEPT ![t] = d]
            /\ decided' = [decided EXCEPT ![t] = @ + 1]
            /\ last' = [last EXCEPT ![t] = "updated"]
            /\ mem' = [mem EXCEPT ![t][idx[t]] = rewritten_image(d)]
            /\ IF lock_is_free(lock, waiters)
               THEN /\ lock' = t
                    /\ pc' = [pc EXCEPT ![t] = "write"]
                    /\ UNCHANGED waiters
               ELSE /\ waiters' = Append(waiters, t)
                    /\ pc' = [pc EXCEPT ![t] = "wait_lock"]
                    /\ UNCHANGED lock
            /\ UNCHANGED idx
       ELSE /\ NextContainer(t)
            /\ last' = [last EXCEPT ![t] = no_decision_kind(o)]
            /\ UNCHANGED <<decision, decided, mem, lockVars>>

\* list_tags ended with o (returned or raised): find_versions and the rest
\* of update.
ListTagsEnds(t, o) ==
    \E d \in {update_finish(Begin(t),
                            find_versions_result(config_limit(config), o))} :
        UpdateReturns(t, o, d)

\* The answer to the first GET of the tags URL arrives.
TagsResponse(t) ==
    /\ pc[t] = "get_tags"
    /\ Started
    /\ ~mustCancel[t]
    /\ \E a \in TagsAnswers :
           /\ a.r.kind # "neterr" => clientOpen
           /\ \E o \in {on_tags_response(a.r, auth_for(Begin(t)))} :
                  IF o.next = "get_token"
                  THEN /\ reqs' = [reqs EXCEPT ![t] = Append(@, o.request)]
                       /\ challenge' = [challenge EXCEPT ![t] = a.ch]
                       /\ pc' = [pc EXCEPT ![t] = "get_token"]
                       /\ UNCHANGED <<idx, mem, decision, last, decided,
                                      lockVars>>
                  ELSE ListTagsEnds(t, o)
    /\ UNCHANGED <<call, config, gitVars, mainVars>>

\* The answer of the token endpoint (the realm) arrives.
TokenResponse(t) ==
    /\ pc[t] = "get_token"
    /\ ~mustCancel[t]
    /\ \E r \in TokenAnswers :
           /\ r.kind # "neterr" => clientOpen
           /\ \E o \in {on_token_response(r, url_of(Begin(t)))} :
                  IF o.next = "retry"
                  THEN /\ reqs' = [reqs EXCEPT ![t] = Append(@, o.request)]
                       /\ pc' = [pc EXCEPT ![t] = "retry"]
                       /\ UNCHANGED <<idx, mem, challenge, decision, last,
                                      decided, lockVars>>
                  ELSE ListTagsEnds(t, o)
    /\ UNCHANGED <<call, config, gitVars, mainVars>>

\* The answer to the retried GET of the tags URL arrives.
RetryResponse(t) ==
    /\ pc[t] = "retry"
    /\ ~mustCancel[t]
    /\ \E a \in TagsAnswers :
           /\ a.r.kind # "neterr" => clientOpen
           /\ \E o \in {on_retry_response(a.r)} : ListTagsEnds(t, o)
    /\ UNCHANGED <<call, config, gitVars, mainVars>>

\* git_lock is released to the first waiter.
LockGranted(t) ==
    /\ pc[t] = "wait_lock"
    /\ ~mustCancel[t]
    /\ lock = 0
    /\ waiters # <<>>
    /\ Head(waiters) = t
    /\ lock' = t
    /\ waiters' = Tail(waiters)
    /\ pc' = [pc EXCEPT ![t] = "write"]
    /\ UNCHANGED <<call, config, idx, mem, reqs, challenge, decision, last,
                   decided,
                   gitVars, mainVars>>

\* with open(path, "w") as file: yaml.dump_all(containers, file, ...)
Write(t) ==
    /\ pc[t] = "write"
    /\ disk' = [disk EXCEPT ![t] = mem[t]]
    /\ pc' = [pc EXCEPT ![t] = "stage"]
    /\ UNCHANGED <<call, config, idx, mem, reqs, challenge, decision, last,
                   decided,
                   index, head, commits, lockVars, mainVars>>

\* repo.index.add(path)
Stage(t) ==
    /\ pc[t] = "stage"
    /\ index' = [index EXCEPT ![t] = disk[t]]
    /\ pc' = [pc EXCEPT ![t] = "commit"]
    /\ UNCHANGED <<call, config, idx, mem, reqs, challenge, decision, last,
                   decided,
                   disk, head, commits, lockVars, mainVars>>

\* repo.index.commit(...), the end of async with git_lock, logging.info and
\* the next turn of the loop.
Commit(t) ==
    /\ pc[t] = "commit"
    /\ head' = index
    /\ commits' = [commits EXCEPT ![t] =
                      index_commit(@, commit_message(t, decision[t]))]
    /\ lock' = 0
    /\ decision' = [decision EXCEPT ![t] = NoDecision]
    /\ NextContainer(t)
    /\ UNCHANGED <<call, config, mem, reqs, challenge, last, decided, disk,
                   index,
                   waiters, mainVars>>

\* open, yaml.dump_all, index.add or index.commit raises: async with releases
\* git_lock and the exception leaves process_file. A failed write leaves the
\* file as it was (open failed) or cut short (open truncated it).
SectionRaises(t) ==
    /\ pc[t] \in InSection
    /\ \E content \in (IF pc[t] = "write" THEN {disk[t], <<>>} ELSE {disk[t]}) :
           disk' = [disk EXCEPT ![t] = content]
    /\ lock' = 0
    /\ pc' = [pc EXCEPT ![t] = "failed"]
    /\ UNCHANGED <<call, config, idx, mem, reqs, challenge, decision, last,
                   decided,
                   index, head, commits, waiters, mainVars>>

\* CancelledError is thrown into a cancelled task at the await it waits at:
\* the call of list_tags it was in, if any, is over.
Cancelled(t) ==
    /\ mustCancel[t]
    /\ pc[t] \in AwaitPoints
    /\ pc' = [pc EXCEPT ![t] = "cancelled"]
    /\ waiters' = SelectSeq(waiters, LAMBDA u : u # t)
    /\ reqs' = [reqs EXCEPT ![t] = <<>>]
    /\ challenge' = [challenge EXCEPT ![t] = <<>>]
    /\ UNCHANGED <<call, config, idx, mem, decision, last, decided, gitVars,
                   lock,
                   mainVars>>

(***************************************************************************)
(* main                                                                    *)
(***************************************************************************)

\* Every task returned: gather returns, async with closes the client.
MainGatherReturns ==
    /\ mainpc = "gather"
    /\ \A t \in Files : pc[t] = "done"
    /\ mainpc' = "done"
    /\ clientOpen' = FALSE
    /\ UNCHANGED <<call, config, taskVars, gitVars, lockVars, mustCancel>>

\* A task raised: gather (return_exceptions is False) raises its exception
\* in main, which leaves async with, closing the client.
MainGatherRaises ==
    /\ mainpc = "gather"
    /\ \E t \in Files : pc[t] = "failed"
    /\ mainpc' = "raising"
    /\ clientOpen' = FALSE
    /\ UNCHANGED <<call, config, taskVars, gitVars, lockVars, mustCancel>>

\* main ended with the exception: asyncio.run cancels the tasks still running.
MainCancelsAll ==
    /\ mainpc = "raising"
    /\ mainpc' = "exited"
    /\ mustCancel' = [t \in Files |-> pc[t] \notin Finished]
    /\ UNCHANGED <<call, config, taskVars, gitVars, lockVars, clientOpen>>

Next ==
    \/ \E t \in Files :
           \/ Load(t)
           \/ Resolve(t)
           \/ TagsResponse(t)
           \/ TokenResponse(t)
           \/ RetryResponse(t)
           \/ LockGranted(t)
           \/ Write(t)
           \/ Stage(t)
           \/ Commit(t)
           \/ SectionRaises(t)
           \/ Cancelled(t)
    \/ MainGatherReturns
    \/ MainGatherRaises
    \/ MainCancelsAll

Spec == Init /\ [][Next]_vars

\* The steps of a task that wait for nothing outside the program: the event
\* loop runs a task that is ready, wakes the first waiter of a free lock and
\* throws CancelledError into a cancelled task.
ReadyStep(t) ==
    \/ Load(t)
    \/ LockGranted(t)
    \/ Write(t)
    \/ Stage(t)
    \/ Commit(t)
    \/ SectionRaises(t)
    \/ Cancelled(t)

\* Resolve(t) is enabled: the task stands before a call of update, and every
\* branch of Resolve has a next state.
ResolveEnabled(t) == pc[t] = "update"

\* The steps of a task that a registry's answer takes.
ResponseStep(t) == TagsResponse(t) \/ TokenResponse(t) \/ RetryResponse(t)

\* ResponseStep(t) is enabled: the task waits in list_tags and is not
\* cancelled (a transport error is an answer at any time).
ResponseEnabled(t) ==
    /\ pc[t] \in InListTags
    /\ ~mustCancel[t]
    /\ pc[t] = "get_tags" => Started

\* main's own steps.
MainStep == MainGatherReturns \/ MainGatherRaises \/ MainCancelsAll

\* The file tasks whose registry may leave a request unanswered for ever:
\* the first file's.
MayStall == {f \in Files : \A g \in Files : f <= g}

\* The event loop is weakly fair to every task and to main, and every
\* registry request is answered in the end (by a response or a transport
\* error) but for those of the tasks of MayStall. For Resolve and for the
\* answers weak fairness is written with the enabling condition spelled out.
Fairness ==
    /\ \A t \in Files : WF_vars(ReadyStep(t))
    /\ \A t \in Files :
           []<>(~ResolveEnabled(t)) \/ []<><<Resolve(t)>>_vars
    /\ \A t \in Files \ MayStall :
           []<>(~ResponseEnabled(t)) \/ []<><<ResponseStep(t)>>_vars
    /\ WF_vars(MainStep)

SpecFair == Spec /\ Fairness

(***************************************************************************)
(* The root script update.py: find_versions with the Docker Hub and GHCR   *)
(* protocols. parse_image, update, process_file and main are the same.     *)
(***************************************************************************)

GhcrIo == <<"g", "h", "c", "r", ".", "i", "o">>

\* Images of the script's runs: "ghcr.io/n/a:1" and "q.io/n/a:1", the latter
\* on a registry the script does not support.
ImgGhcr == GhcrIo \o <<"/", "n", "/", "a", ":", "1">>

ImgOther == <<"q", ".", "i", "o", "/", "n", "/", "a", ":", "1">>

LegacyFileTable ==
    << <<ImgGhcr, ImgA>>, <<ImgOther, ImgA>>, <<ImgA, ImgGhcr>> >>

\* An override with user and pat for "n/a", as the script reads them.
CfgPat ==
    [env |-> <<>>,
     file |-> (<<"n", "/", "a">> :>
                  DictValue({"user", "pat"}, TRUE, NoPattern,
                            <<"u">>, <<"p">>))]

LegacyConfigs == {CfgEmpty, CfgPat}

\* if registry in ("docker.io", None) / elif registry == "ghcr.io" / else
legacy_route(registry) ==
    IF registry = DockerIo \/ registry = None THEN "hub_get"
    ELSE IF registry = GhcrIo THEN "ghcr_token"
    ELSE "unsupported_registry"

\* (str(container["user"]), str(container["pat"])) if both are truthy
legacy_auth(container) ==
    IF /\ "user" \in container.keys /\ "pat" \in container.keys
       /\ Truthy(container.username) /\ Truthy(container.password)
    THEN <<container.username, container.password>>
    ELSE None

\* str(n) of a natural number.
DigitChars == <<"0", "1", "2", "3", "4", "5", "6", "7", "8", "9">>

RECURSIVE str_of_int(_)
str_of_int(n) ==
    IF n < 10 THEN <<DigitChars[n + 1]>>
    ELSE str_of_int(n \div 10) \o <<DigitChars[(n % 10) + 1]>>

KeyPageSize == <<"p", "a", "g", "e", "_", "s", "i", "z", "e">>

DefaultPageSize == 40

\* int(config["page_size"]) with the script's Config, whose default_values
\* hold page_size where the package has limit.
page_size(cfg) ==
    LET first_truthy(e, f) ==
            IF Truthy(e) THEN StrValue(e)
            ELSE IF ValueTruthy(f) THEN f
            ELSE IntValue(DefaultPageSize)
    IN  IntOfValue(first_truthy(getenv(cfg.env, upper(KeyPageSize)),
                                config_get(cfg.file, lower(KeyPageSize))))

HubNamespaces ==
    <<"h", "t", "t", "p", "s", ":", "/", "/", "h", "u", "b", ".", "d", "o",
      "c", "k", "e", "r", ".", "c", "o", "m", "/", "v", "2", "/", "n", "a",
      "m", "e", "s", "p", "a", "c", "e", "s", "/">>

Repositories ==
    <<"/", "r", "e", "p", "o", "s", "i", "t", "o", "r", "i", "e", "s", "/">>

TagsPageSize ==
    <<"/", "t", "a", "g", "s", "?", "p", "a", "g", "e", "_", "s", "i", "z",
      "e", "=">>

GhcrTokenScope ==
    <<"h", "t", "t", "p", "s", ":", "/", "/", "g", "h", "c", "r", ".", "i",
      "o", "/", "t", "o", "k", "e", "n", "?", "s", "c", "o", "p", "e", "=",
      "r", "e", "p", "o", "s", "i", "t", "o", "r", "y", ":">>

ColonPull == <<":", "p", "u", "l", "l">>

GhcrV2 ==
    <<"h", "t", "t", "p", "s", ":", "/", "/", "g", "h", "c", "r", ".", "i",
      "o", "/", "v", "2", "/">>

\* f"https://hub.docker.com/v2/namespaces/{user}/repositories/{image}/tags
\* ?page_size={page_size}", user being "library" for "_"
hub_url(user, image, size) ==
    HubNamespaces \o (IF user = Underscore THEN Library ELSE user)
    \o Repositories \o image \o TagsPageSize \o str_of_int(size)

\* f"https://ghcr.io/token?scope=repository:{user}/{image}:pull"
ghcr_token_url(user, image) ==
    GhcrTokenScope \o user \o <<"/">> \o image \o ColonPull

\* f"https://ghcr.io/v2/{user}/{image}/tags/list"
ghcr_tags_url(user, image) == GhcrV2 \o user \o <<"/">> \o image \o TagsList

\* The first request of find_versions for the route.
legacy_first_request(route, b, size) ==
    IF route = "hub_get"
    THEN Request(hub_url(b.user, b.image, size), <<>>, None, None)
    ELSE Request(ghcr_token_url(b.user, b.image), <<>>,
                 legacy_auth(b.container), None)

\* A response to the script: a transport error, a body that is not JSON, or
\* a JSON object whose keys are has; names are the tags it lists.
LegacyResponse(kind, has, names, token) ==
    [kind |-> kind, has |-> has, names |-> names, token |-> token]

LegacyAnswers ==
    { LegacyResponse("neterr", {}, <<>>, None),
      LegacyResponse("badjson", {}, <<>>, None),
      LegacyResponse("json", {}, <<>>, None),
      LegacyResponse("json", {"errors"}, <<>>, None),
      LegacyResponse("json", {"token"}, <<>>, <<"k">>) }
    \cup {LegacyResponse("json", {"results", "tags"}, tags, None) :
             tags \in PipelineTagLists}

\* client.get and request.json() of every request of the script.
legacy_body(r) ==
    IF r.kind = "neterr" THEN Raise("network_error")
    ELSE IF r.kind = "badjson" THEN Raise("bad_body")
    ELSE Return(<<>>, "")

\* Docker Hub: the names of result.get("results", [])
on_hub_response(r) ==
    IF r.kind # "json" THEN legacy_body(r)
    ELSE IF "results" \in r.has THEN Return(r.names, "")
    ELSE Return(<<>>, "")

\* GHCR token: result.get("token"), else result["errors"][0]["message"]
on_ghcr_token_response(r, b) ==
    IF r.kind # "json" THEN legacy_body(r)
    ELSE IF "token" \in r.has /\ Truthy(r.token)
    THEN Send("ghcr_tags",
              Request(ghcr_tags_url(b.user, b.image), <<>>, None, r.token))
    ELSE IF "errors" \in r.has THEN Return(<<>>, "no_token")
    ELSE Raise("bad_body")

\* GHCR tags: result.get("errors"), else result["tags"]
on_ghcr_tags_response(r) ==
    IF r.kind # "json" THEN legacy_body(r)
    ELSE IF "errors" \in r.has THEN Return(<<>>, "unexpected_status")
    ELSE IF "tags" \in r.has THEN Return(r.names, "")
    ELSE Raise("bad_body")

\* find_versions ended with o. It catches nothing: what a request raised
\* leaves update and process_file; what it returned goes on through update.
LegacyFindVersionsEnds(t, o) ==
    IF o.next = "raise"
    THEN /\ pc' = [pc EXCEPT ![t] = "failed"]
         /\ last' = [last EXCEPT ![t] = o.why]
         /\ reqs' = [reqs EXCEPT ![t] = <<>>]
         /\ UNCHANGED <<idx, mem, challenge, decision, decided, lockVars>>
    ELSE \E d \in {update_finish(Begin(t), o.tags)} : UpdateReturns(t, o, d)

\* await update(...) up to the first client.get of find_versions.
LegacyResolve(t) ==
    /\ pc[t] = "update"
    /\ \E b \in {Begin(t)} :
           IF b.stop # ""
           THEN /\ NextContainer(t)
                /\ last' = [last EXCEPT ![t] = b.stop]
                /\ UNCHANGED reqs
           ELSE IF legacy_route(b.registry) = "unsupported_registry"
           THEN /\ NextContainer(t)
                /\ last' = [last EXCEPT ![t] = "unsupported_registry"]
                /\ UNCHANGED reqs
           ELSE IF ~clientOpen
           THEN /\ pc' = [pc EXCEPT ![t] = "failed"]
                /\ last' = [last EXCEPT ![t] = "network_error"]
                /\ UNCHANGED <<idx, reqs>>
           ELSE /\ reqs' = [reqs EXCEPT ![t] =
                               <<legacy_first_request(
                                     legacy_route(b.registry), b,
                                     page_size(config))>>]
                /\ pc' = [pc EXCEPT ![t] = legacy_route(b.registry)]
                /\ last' = [last EXCEPT ![t] = ""]
                /\ UNCHANGED idx
    /\ UNCHANGED <<call, config, mem, challenge, decision, decided, gitVars,
                   lockVars, mainVars>>

\* The answer of hub.docker.com arrives.
HubResponse(t) ==
    /\ pc[t] = "hub_get"
    /\ Started
    /\ ~mustCancel[t]
    /\ \E r \in LegacyAnswers :
           /\ r.kind # "neterr" => clientOpen
           /\ LegacyFindVersionsEnds(t, on_hub_response(r))
    /\ UNCHANGED <<call, config, gitVars, mainVars>>

\* The answer of ghcr.io/token arrives.
GhcrTokenResponse(t) ==
    /\ pc[t] = "ghcr_token"
    /\ Started
    /\ ~mustCancel[t]
    /\ \E r \in LegacyAnswers :
           /\ r.kind # "neterr" => clientOpen
           /\ \E o \in {on_ghcr_token_response(r, Begin(t))} :
                  IF o.next = "ghcr_tags"
                  THEN /\ reqs' = [reqs EXCEPT ![t] = Append(@, o.request)]
                       /\ pc' = [pc EXCEPT ![t] = "ghcr_tags"]
                       /\ UNCHANGED <<idx, mem, challenge, decision, last,
                                      decided, lockVars>>
                  ELSE LegacyFindVersionsEnds(t, o)
    /\ UNCHANGED <<call, config, gitVars, mainVars>>

\* The answer of ghcr.io/v2/.../tags/list arrives.
GhcrTagsResponse(t) ==
    /\ pc[t] = "ghcr_tags"
    /\ ~mustCancel[t]
    /\ \E r \in LegacyAnswers :
           /\ r.kind # "neterr" => clientOpen
           /\ LegacyFindVersionsEnds(t, on_ghcr_tags_response(r))
    /\ UNCHANGED <<call, config, gitVars, mainVars>>

InitLegacy == InitWith(LegacyConfigs, LegacyFileTable) /\ call = NoCall

NextLegacy ==
    \/ \E t \in Files :
           \/ Load(t)
           \/ LegacyResolve(t)
           \/ HubResponse(t)
           \/ GhcrTokenResponse(t)
           \/ GhcrTagsResponse(t)
           \/ LockGranted(t)
           \/ Write(t)
           \/ Stage(t)
           \/ Commit(t)
           \/ SectionRaises(t)
           \/ Cancelled(t)
    \/ MainGatherReturns
    \/ MainGatherRaises
    \/ MainCancelsAll

SpecLegacy == InitLegacy /\ [][NextLegacy]_vars

(***************************************************************************)
(* parse_image and update called on their own                              *)
(***************************************************************************)

\* The longest image string parse_image is called with.
MaxImageLen == 5

ImageChars == {"a", "1", ".", "/", ":"}

ImageStrings == UNION {[1..n -> ImageChars] : n \in 0..MaxImageLen}

\* The pipeline at rest: no file to process.
NoFiles == << <<>> >>

\* result = parse_image(image)
CallParseImage ==
    /\ call.state = "parse_image"
    /\ call' = [call EXCEPT !.state = "returned",
                            !.parsed = parse_image(call.image)]
    /\ UNCHANGED pipelineVars

InitParse ==
    /\ InitWith({CfgEmpty}, NoFiles)
    /\ \E image \in ImageStrings :
           call = [NoCall EXCEPT !.state = "parse_image", !.image = image]

NextParse == CallParseImage

SpecParse == InitParse /\ [][NextParse]_vars

\* The images update is called with: "a:1.0", "n/a:1", "a" (no tag),
\* "a/a/a/a:1" (four segments), "a.a/n/a:1.1-x" and "a:1a1" (a pre-release).
ImgFull ==
    <<"a", ".", "a", "/", "n", "/", "a", ":", "1", ".", "1", "-", "x">>

ImgPre == <<"a", ":", "1", "a", "1">>

UpdateImages == {ImgA, ImgNA, ImgNoTag, ImgBad, ImgFull, ImgPre}

\* Configurations of the calls: an override under each of the three keys
\* of "n/a" (the earliest disables updates); an empty mapping under "_/a"
\* before a disabling one under "a"; the environment variable A set beside
\* a disabling mapping under "a"; LIMIT=2 in the environment beside limit 1
\* in the file; LIMIT=0 in the environment; and a version_regex with one
\* group for "a.a/n/a".
CfgThreeKeys ==
    [env |-> <<>>,
     file |-> (<<"n", "/", "a">> :>
                  DictValue({"update"}, FALSE, NoPattern, None, None))
              @@ (<<"a">> :>
                     DictValue({"update"}, TRUE, NoPattern, None, None))]

CfgEmptyFirst ==
    [env |-> <<>>,
     file |-> (<<"_", "/", "a">> :> EmptyDict)
              @@ (<<"a">> :>
                     DictValue({"update"}, FALSE, NoPattern, None, None))]

CfgEnvHides ==
    [env |-> (<<"A">> :> <<"x">>),
     file |-> (<<"a">> :>
                  DictValue({"update"}, FALSE, NoPattern, None, None))]

CfgEnvLimit ==
    [env |-> (upper(KeyLimit) :> <<"2">>),
     file |-> (KeyLimit :> IntValue(1))]

CfgEnvZero ==
    [env |-> (upper(KeyLimit) :> <<"0">>),
     file |-> <<>>]

CfgRegex ==
    [env |-> <<>>,
     file |-> (<<"a", ".", "a", "/", "n", "/", "a">> :>
                  DictValue({"version_regex"}, TRUE, PatLeadingVersion,
                            None, None))]

UpdateConfigs ==
    {CfgEmpty, CfgSkip, CfgLimit, CfgThreeKeys, CfgEmptyFirst, CfgEnvHides,
     CfgEnvLimit, CfgEnvZero, CfgRegex}

\* The longest tag list a registry answers a call with.
MaxTags == 3

\* Tags: releases, a pre-release, a release with the v prefix, and one that
\* is a version only up to its suffix.
TagPool ==
    { <<"1", ".", "0">>, <<"1", ".", "1">>, <<"2", ".", "0">>,
      <<"9", "a", "1">>, <<"v", "1", ".", "2">>, <<"1", ".", "2", "-", "x">> }

UpdateTagLists == UNION {[1..n -> TagPool] : n \in 0..MaxTags}

\* update(config, container, client) up to find_versions: it returns None,
\* or it calls the registry.
CallUpdate ==
    /\ call.state = "update"
    /\ \E b \in {update_begin(config, call.image)} :
           call' = [call EXCEPT
                        !.state = IF b.stop # "" THEN "returned"
                                  ELSE "find_versions",
                        !.requested = (b.stop = ""),
                        !.parsed = parse_image(call.image)]
    /\ UNCHANGED pipelineVars

\* list_tags returns tags, find_versions returns its versions and update
\* goes on to its return.
CallFindVersionsReturns ==
    /\ call.state = "find_versions"
    /\ \E tags \in UpdateTagLists :
           call' = [call EXCEPT
                        !.state = "returned",
                        !.tags = tags,
                        !.versions =
                            find_versions_result(config_limit(config),
                                                 Return(tags, "")),
                        !.result =
                            update_finish(
                                update_begin(config, call.image),
                                find_versions_result(config_limit(config),
                                                     Return(tags, "")))]
    /\ UNCHANGED pipelineVars

InitUpdate ==
    /\ InitWith(UpdateConfigs, NoFiles)
    /\ \E image \in UpdateImages :
           call = [NoCall EXCEPT !.state = "update", !.image = image]

NextUpdate == CallUpdate \/ CallFindVersionsReturns

SpecUpdate == InitUpdate /\ [][NextUpdate]_vars

\* Runs of the program one after the other on one container: update decides
\* on the image the file holds, process_file rewrites the image, and the next
\* run loads the rewritten file; the registry answers every run with the
\* same list. The images: "a:1.0", "n/a:1", "a.a/n/a:1.1-x", "a.a/a:1" (a
\* registry and no namespace) and "a.a:1/n/a:1.0" (a registry with a port).
ImgReg == <<"a", ".", "a", "/", "a", ":", "1">>

ImgPort ==
    <<"a", ".", "a", ":", "1", "/", "n", "/", "a", ":", "1", ".", "0">>

RerunImages == {ImgA, ImgNA, ImgFull, ImgReg, ImgPort}

RerunConfigs == {CfgEmpty, CfgLimit, CfgRegex, CfgEmptyFirst}

\* The number of runs followed.
MaxRuns == 3

\* One run's call of update on the container.
RunUpdate ==
    /\ call.state = "update"
    /\ call.runs < MaxRuns
    /\ \E b \in {update_begin(config, call.image)} :
           call' = [call EXCEPT
                        !.state = "returned",
                        !.runs = @ + 1,
                        !.result =
                            IF b.stop # "" THEN NoDecision
                            ELSE update_finish(
                                     b,
                                     find_versions_result(
                                         config_limit(config),
                                         Return(call.tags, "")))]
    /\ UNCHANGED pipelineVars

\* process_file rewrites the image in the file; the next run starts from it.
RewriteImage ==
    /\ call.state = "returned"
    /\ call.result.ok
    /\ call' = [call EXCEPT
                    !.state = "update",
                    !.previous = call.image,
                    !.image = rewritten_image(call.result)]
    /\ UNCHANGED pipelineVars

InitRerun ==
    /\ InitWith(RerunConfigs, NoFiles)
    /\ \E image \in RerunImages, tags \in UpdateTagLists :
           call = [state |-> "update", image |-> image, previous |-> None,
                   tags |-> tags, runs |-> 0, result |-> NoDecision]

NextRerun == RunUpdate \/ RewriteImage

SpecRerun == InitRerun /\ [][NextRerun]_vars

(***************************************************************************)
(* The pipeline's properties                                               *)
(***************************************************************************)

\* A task has written its file and not yet committed it.
HalfApplied(t) == pc[t] \in {"stage", "commit"}

\* C1: at most one process_file task is inside async with git_lock at any
\* time, and it is the task that holds the lock; and from a task's write of
\* its file to that task's commit no other task's file is written, staged or
\* committed.
C1_MutualExclusion ==
    /\ [](\A t, u \in Files :
              (pc[t] \in InSection /\ pc[u] \in InSection) => t = u)
    /\ [](\A t \in Files : pc[t] \in InSection => lock = t)
    /\ [][\A t \in Files :
              HalfApplied(t) =>
                  \A u \in Files \ {t} :
                      /\ disk'[u] = disk[u]
                      /\ index'[u] = index[u]
                      /\ commits'[u] = commits[u]]_vars

\* A task is about to commit while another waits for git_lock with its own
\* decision.
C1_Witness ==
    \E t, u \in Files :
        pc[t] = "commit" /\ pc[u] = "wait_lock" /\ decision[u].ok

\* C2 as stated: when the run has ended, a file with at least one decision
\* has exactly one commit and a file with none has no commit.
C2_OneCommitPerFile ==
    mainpc = "done" =>
        \A t \in Files :
            Len(commits[t]) = (IF decided[t] >= 1 THEN 1 ELSE 0)

\* C2 amended: a file never has more commits than its containers got
\* decisions (none without a decision), and a task that ended normally has
\* one commit for each decision of its file.
C2_OneCommitPerDecision ==
    \A t \in Files :
        /\ Len(commits[t]) <= decided[t]
        /\ pc[t] = "done" => Len(commits[t]) = decided[t]

\* A task ended with two decisions for the two containers of its file, and
\* another ended with none.
C2_Witness ==
    \E t, u \in Files :
        /\ pc[t] = "done" /\ decided[t] = 2 /\ Len(commits[t]) = 2
        /\ pc[u] = "done" /\ decided[u] = 0 /\ commits[u] = <<>>

\* C3: a failure of the write, stage or commit of one task fails that task
\* only: no other task is cancelled, and the client stays usable for the
\* tasks not yet finished.
C3_FailureStaysInFile ==
    \A t \in Files :
        pc[t] = "failed" =>
            \A u \in Files \ {t} :
                /\ pc[u] # "cancelled"
                /\ pc[u] \notin Finished => clientOpen

\* The ways a call of update ends for a failure of the resolver.
ResolverFailures ==
    {"invalid_image", "unparsable_version", "network_error",
     "unexpected_status", "no_realm", "no_token", "token_failed",
     "retry_failed", "no_tags", "unsupported_registry", "bad_body"}

\* C4: a resolver failure gives no decision for its container and nothing
\* else: the task goes on to the next container or ends normally, and no
\* task fails or is cancelled unless a write, stage or commit failed.
C4_FailureIsNoDecision ==
    \A t \in Files :
        /\ last[t] \in ResolverFailures =>
               pc[t] \in {"update", "done"} /\ ~decision[t].ok
        /\ pc[t] \in {"failed", "cancelled"} =>
               \E u \in Files : pc[u] = "failed" /\ last[u] = "updated"

\* How many requests list_tags has sent when it waits at each of its awaits.
RequestsSentAt(p) ==
    CASE p = "get_tags" -> 1 [] p = "get_token" -> 2 [] p = "retry" -> 3
      [] OTHER -> 0

\* C5: list_tags sends at most three requests, in this order, and none once
\* it has ended: the tags URL with the credentials; after a 401 Bearer
\* challenge with a realm, the realm URL with the challenge's other
\* parameters as query and the same credentials; then the tags URL again
\* with the token as Bearer and no credentials.
C5_ChallengeFlow ==
    \A t \in Files :
        /\ Len(reqs[t]) = RequestsSentAt(pc[t])
        /\ Len(reqs[t]) >= 1 =>
               /\ reqs[t][1].url = url_of(Begin(t))
               /\ reqs[t][1].params = <<>>
               /\ reqs[t][1].bearer = None
        /\ Len(reqs[t]) >= 2 =>
               /\ reqs[t][2].url = dict_get(challenge[t], Realm)
               /\ reqs[t][2].params = dict_without(challenge[t], Realm)
               /\ reqs[t][2].auth = reqs[t][1].auth
               /\ reqs[t][2].bearer = None
        /\ Len(reqs[t]) = 3 =>
               /\ reqs[t][3].url = reqs[t][1].url
               /\ reqs[t][3].params = <<>>
               /\ reqs[t][3].auth = None
               /\ reqs[t][3].bearer \in {r.token : r \in TokenAnswers}
                                        \cup {r.access_token : r \in TokenAnswers}
               /\ Truthy(reqs[t][3].bearer)

(***************************************************************************)
(* Properties of update and parse_image                                    *)
(***************************************************************************)

\* update's state at find_versions in the call under way.
CallBegin == update_begin(config, call.image)

\* The version update compares tag i of the registry's list by.
TagVersion(i) ==
    parse_version(extract_version(call.tags[i], CallBegin.version_regex))

\* Tag i is the tag of the decision, it is newer than the current version,
\* and no tag of among is newer than it.
Selected(i, among) ==
    /\ call.tags[i] = call.result.newest_version
    /\ TagVersion(i).ok
    /\ KeyLess(CallBegin.current_version.key, TagVersion(i).key)
    /\ \A j \in among :
           TagVersion(j).ok => ~KeyLess(TagVersion(i).key, TagVersion(j).key)

\* The decision names the container's full image id and repository.
CarriesImage ==
    /\ call.result.full_image = CallBegin.full_image
    /\ call.result.image = call.parsed.image

\* C6 as stated: the tag of a decision is a tag of the registry's list that
\* is newer than the current version and at least as new as every parsable
\* tag of the list.
C6_MaximumOfList ==
    (call.state = "returned" /\ call.result.ok) =>
        /\ \E i \in 1..Len(call.tags) : Selected(i, 1..Len(call.tags))
        /\ CarriesImage

\* The last limit entries of the registry's list.
Window == {j \in 1..Len(call.tags) : j > Len(call.tags) - config_limit(config)}

\* C6 amended: for a positive limit, the tag of a decision is one of the
\* last limit tags of the registry's list, newer than the current version
\* and at least as new as every parsable tag among those last limit tags.
C6_MaximumOfWindow ==
    (call.state = "returned" /\ call.result.ok /\ config_limit(config) > 0) =>
        /\ \E i \in Window : Selected(i, Window)
        /\ CarriesImage

\* A decision for a tag that is neither the first nor the only candidate of
\* the window, while an older entry outside the window is newer still.
C6_Witness ==
    /\ call.state = "returned"
    /\ call.result.ok
    /\ \E i, j \in Window :
           /\ i < j
           /\ TagVersion(i).ok
           /\ KeyLess(CallBegin.current_version.key, TagVersion(i).key)
           /\ Selected(j, Window)
           /\ KeyLess(TagVersion(i).key, TagVersion(j).key)
    /\ \E k \in (1..Len(call.tags)) \ Window :
           /\ TagVersion(k).ok
           /\ \A j \in Window :
                  TagVersion(j).ok =>
                      KeyLess(TagVersion(j).key, TagVersion(k).key)

\* C7: update returns no decision, and asks no registry, when the override
\* it resolved has update == false; and it returns no decision when no tag
\* of the list it got parses to a version newer than the current one.
C7_NoDecision ==
    /\ ( /\ call.state # "update"
         /\ call.parsed.ok
         /\ "update" \in CallBegin.container.keys
         /\ CallBegin.container.update = FALSE )
       => (~call.requested /\ ~call.result.ok)
    /\ ( /\ call.state = "returned"
         /\ \A i \in 1..Len(call.tags) :
                ~( /\ TagVersion(i).ok
                   /\ KeyLess(CallBegin.current_version.key,
                              TagVersion(i).key) ) )
       => ~call.result.ok

\* The registry was asked and listed the current version and an older one,
\* nothing newer.
C7_Witness ==
    /\ call.state = "returned"
    /\ call.requested
    /\ ~call.result.ok
    /\ \E i, j \in 1..Len(call.tags) :
           /\ TagVersion(i).ok
           /\ TagVersion(i).key = CallBegin.current_version.key
           /\ TagVersion(j).ok
           /\ KeyLess(TagVersion(j).key, CallBegin.current_version.key)

\* The keys of the override lookup of the call under way.
CallItems ==
    OverrideItems(CallBegin.full_image, call.parsed.user, call.parsed.image)

\* The keys under which the configuration file holds a mapping.
FileMappings ==
    {i \in 1..3 :
        /\ CallItems[i] \in DOMAIN config.file
        /\ config.file[CallItems[i]].kind = "dict"}

\* C8 as stated: if the configuration file holds a mapping under one of the
\* three keys, the mapping of the earliest such key is the override.
C8_FileMappingWins ==
    (call.state # "update" /\ call.parsed.ok /\ FileMappings # {}) =>
        CallBegin.container =
            config.file[CallItems[CHOOSE i \in FileMappings :
                                      \A j \in FileMappings : i <= j]]

\* The keys whose lookup gives a mapping update accepts: no environment
\* variable of the upper-cased name is set to a non-empty value, and the
\* file holds a non-empty mapping under the lower-cased key.
UsableMappings ==
    {i \in 1..3 :
        /\ ~( /\ upper(CallItems[i]) \in DOMAIN config.env
              /\ config.env[upper(CallItems[i])] # <<>> )
        /\ lower(CallItems[i]) \in DOMAIN config.file
        /\ config.file[lower(CallItems[i])].kind = "dict"
        /\ config.file[lower(CallItems[i])].keys # {}}

\* C8 amended: the override is the file's mapping under the earliest key
\* whose lookup is not hidden by an environment variable and holds a
\* non-empty mapping; it is the empty mapping when there is no such key.
C8_FirstUsableMapping ==
    (call.state # "update" /\ call.parsed.ok) =>
        CallBegin.container =
            IF UsableMappings = {} THEN EmptyDict
            ELSE config.file[lower(CallItems[
                     CHOOSE i \in UsableMappings :
                         \A j \in UsableMappings : i <= j])]

\* Two keys of one image hold different usable mappings.
C8_Witness ==
    /\ call.state # "update"
    /\ call.parsed.ok
    /\ \E i, j \in UsableMappings :
           /\ i < j
           /\ config.file[lower(CallItems[i])]
                  # config.file[lower(CallItems[j])]
           /\ CallBegin.container = config.file[lower(CallItems[i])]

\* The position of the last ':' of s, 0 when there is none.
LastColon(s) ==
    IF Contains(s, ":")
    THEN CHOOSE k \in 1..Len(s) :
             s[k] = ":" /\ \A j \in (k + 1)..Len(s) : s[j] # ":"
    ELSE 0

\* What C9 says of an image whose path has the segments segs.
Classified(segs, version) ==
    CASE Len(segs) = 1 -> ParsedImage(None, Underscore, segs[1], version)
      [] Len(segs) = 2 /\ Contains(segs[1], ".") ->
             ParsedImage(segs[1], Underscore, segs[2], version)
      [] Len(segs) = 2 /\ ~Contains(segs[1], ".") ->
             ParsedImage(None, segs[1], segs[2], version)
      [] Len(segs) = 3 -> ParsedImage(segs[1], segs[2], segs[3], version)
      [] OTHER -> InvalidImage

\* C9: parse_image splits the image at its last ':' into the path before it
\* and the version after it ("latest" without a colon), and classifies the
\* path by its '/'-segments.
C9_SplitsOnLastColon ==
    call.state = "returned" =>
        call.parsed =
            IF LastColon(call.image) = 0
            THEN Classified(split(call.image, "/"), Latest)
            ELSE Classified(
                     split(SubSeq(call.image, 1, LastColon(call.image) - 1),
                           "/"),
                     SubSeq(call.image, LastColon(call.image) + 1,
                            Len(call.image)))

\* The parts of a reference that its image string names: the registry if it
\* has one, the namespace unless it is the placeholder, the repository.
NamedParts(p) ==
    (IF p.registry = None THEN <<>> ELSE <<p.registry>>)
    \o (IF p.user = Underscore THEN <<>> ELSE <<p.user>>)
    \o <<p.image>>

\* C10: the image written back to the file is full_image:new_version, where
\* full_image joins the parts the container's image string names and has no
\* segment for an absent registry or namespace. head holds the image as it
\* was before the update.
C10_AbsentPartsOmitted ==
    \A t \in Files :
        HalfApplied(t) =>
            disk[t][idx[t]] =
                join("/", NamedParts(parse_image(head[t][idx[t]])))
                \o <<":">> \o decision[t].newest_version

\* The last n entries of a tag list, in the list's order; all of it when it
\* has no more than n.
LastEntries(tags, n) ==
    SubSeq(tags, (IF Len(tags) > n THEN Len(tags) - n ELSE 0) + 1, Len(tags))

\* C11: whatever tag list the registry delivers and whatever limit is
\* configured, find_versions returns at most limit tags, and they are the
\* last limit entries of the delivered list in the delivered order.
C11_LastLimitTags ==
    (call.state = "returned" /\ call.requested) =>
        /\ Len(call.versions) <= config_limit(config)
        /\ call.versions = LastEntries(call.tags, config_limit(config))

\* The version string update takes from a raw tag or current version.
Extracted(raw) == extract_version(raw, CallBegin.version_regex)

\* The string is there, Version accepts it and it is no pre-release.
Comparable(version) ==
    /\ Truthy(version)
    /\ VersionOf(version).valid
    /\ ~VersionOf(version).pre

\* C12: parse_version returns a version for exactly the strings that are
\* there, well-formed and no pre-release, for the current version and for
\* every tag of the registry; the tag of a decision never has a pre-release
\* as its extracted version; and a container whose current version is a
\* pre-release or unparsable gets no decision and no registry request.
C12_PreReleaseExcluded ==
    /\ (call.state # "update" /\ call.parsed.ok) =>
           /\ parse_version(Extracted(call.parsed.version)).ok
                  <=> Comparable(Extracted(call.parsed.version))
           /\ ~Comparable(Extracted(call.parsed.version)) =>
                  /\ ~call.requested
                  /\ call.state = "returned"
                  /\ ~call.result.ok
    /\ (call.state = "returned" /\ call.requested) =>
           \A i \in DOMAIN call.tags :
               parse_version(Extracted(call.tags[i])).ok
                   <=> Comparable(Extracted(call.tags[i]))
    /\ call.result.ok => Comparable(Extracted(call.result.newest_version))

\* A decision was made from a list whose window holds a pre-release tag.
C12_Witness ==
    /\ call.state = "returned"
    /\ call.result.ok
    /\ \E i \in Window :
           /\ Truthy(Extracted(call.tags[i]))
           /\ VersionOf(Extracted(call.tags[i])).valid
           /\ VersionOf(Extracted(call.tags[i])).pre

\* The task stands before the resolver call of a container with nothing of
\* the containers before it left open: no request out, no decision pending,
\* the lock not held, every update decided so far written and committed.
NothingInFlight(t) ==
    /\ reqs[t] = <<>>
    /\ ~decision[t].ok
    /\ lock # t
    /\ disk[t] = mem[t]
    /\ Len(commits[t]) = decided[t]

\* The commit message of the container the task is at, read off the image
\* the task holds for it in memory.
MessageOfCurrent(t) ==
    [stem |-> t,
     image |-> parse_image(mem[t][idx[t]]).image,
     version |-> parse_image(mem[t][idx[t]]).version]

\* C13: a file task handles its containers one after the other in document
\* order. When it starts the resolver call of a container, the resolver
\* call, write and commit of every earlier container are complete; a file
\* never has more than one update decided and not yet committed; the task
\* moves from a container to the next one only; and each commit of a file
\* is the commit of the container the task is at, after which the task goes
\* on to a later container or ends, so that the commits of a file are in
\* document order.
C13_DocumentOrder ==
    /\ [](\A t \in Files : pc[t] = "update" => NothingInFlight(t))
    /\ [](\A t \in Files :
              /\ decided[t] - Len(commits[t]) \in {0, 1}
              /\ pc[t] \in InListTags \cup {"done"} =>
                     decided[t] = Len(commits[t]))
    /\ [][\A t \in Files :
              /\ idx'[t] \in {idx[t], idx[t] + 1}
              /\ idx'[t] # idx[t] => pc'[t] = "update"
              /\ commits'[t] # commits[t] =>
                     /\ commits'[t] = Append(commits[t], MessageOfCurrent(t))
                     /\ idx'[t] = idx[t] + 1 \/ pc'[t] = "done"]_vars

\* One file has two commits, another file has a commit of its own.
C13_Witness ==
    \E t, u \in Files :
        /\ t # u
        /\ Len(commits[t]) = 2
        /\ commits[u] # <<>>

\* C14: when a registry call of one file task never returns (the task waits
\* in list_tags for ever), every other file task, its own registry calls
\* being answered and the scheduling fair, still ends with all its
\* containers handled, lock acquisitions and commits included.
C14_StallBlocksOnlyItself ==
    \A s \in MayStall :
        <>[](pc[s] \in InListTags) =>
            \A u \in Files \ {s} : <>(pc[u] = "done")

\* A task waits for a registry's answer while another task has handled all
\* its containers and committed an update.
C14_Witness ==
    \E s \in MayStall, u \in Files :
        /\ u # s
        /\ pc[s] \in InListTags
        /\ pc[u] = "done"
        /\ commits[u] # <<>>

\* The lock is held by a task inside async with git_lock and by no other:
\* not by a task that waits for a registry, nor by one that has ended.
LockOnlyInSection ==
    \A t \in Files :
        /\ lock = t => pc[t] \in InSection
        /\ pc[t] \in InListTags \cup Finished => lock # t

BeginNow == update_begin(config, call.image)

BeginBefore == update_begin(config, call.previous)

\* The first request list_tags makes for a container.
RequestOf(b) ==
    first_request(b.registry, repo_of(b.user, b.image),
                  dict_get_username(b.container),
                  dict_get_password(b.container))

\* C16: an update is a fixpoint. The rewritten image parses to the registry,
\* namespace and repository of the image it replaced, so that it has the
\* same full image id, the same override and the same registry request; its
\* parsed version is not lower than the one it replaced; and update called
\* again on it with the same configuration and the same tag list returns no
\* decision.
C16_UpdateIsFixpoint ==
    /\ call.previous # None =>
           /\ parse_image(call.image).ok
           /\ parse_image(call.image).registry
                  = parse_image(call.previous).registry
           /\ parse_image(call.image).user = parse_image(call.previous).user
           /\ parse_image(call.image).image = parse_image(call.previous).image
           /\ BeginNow.full_image = BeginBefore.full_image
           /\ BeginNow.container = BeginBefore.container
           /\ RequestOf(BeginNow) = RequestOf(BeginBefore)
           /\ BeginNow.current_version.ok
           /\ ~KeyLess(BeginNow.current_version.key,
                       BeginBefore.current_version.key)
    /\ (call.state = "returned" /\ call.previous # None) => ~call.result.ok

\* A container was rewritten and update was called again on it with the
\* same tag list, several tags of which are newer than the version the
\* container started from.
C16_Witness ==
    /\ call.state = "returned"
    /\ call.runs = 2
    /\ call.previous # None
    /\ Len(call.tags) >= 2
    /\ call.image # call.previous


=============================================================================
